---- MODULE Spec2Model ----
(***************************************************************************)
(* HandshakeManager of libtorrent (src/protocol/handshake_manager.cc): the *)
(* registry of pending handshakes, the admission of incoming and outgoing  *)
(* attempts, the terminal callbacks and the bulk teardown operations.      *)
(*                                                                         *)
(* Every operation of the manager is an operator from a manager state      *)
(* (a record of the registry, the Handshake objects, the descriptors, the  *)
(* per-download peer lists, the open-socket counter and the connection     *)
(* lists) and the values its collaborators return, to the state after the  *)
(* call and a report of what the call did.  The actions apply these        *)
(* operators to the current state with the collaborators' answers drawn    *)
(* from small sets.                                                        *)
(***************************************************************************)
EXTENDS Integers, Sequences, FiniteSets, TLC

VARIABLES registry, handshakes, sockets, peer_list, socket_count,
          connection_list, counts, lastOp

vars == <<registry, handshakes, sockets, peer_list, socket_count,
          connection_list, counts, lastOp>>

----------------------------------------------------------------------------
(* Bounds of the model. *)

\* Connection attempts (add_incoming, add_outgoing, retries) in one run.
MaxAttempts == 2
\* Largest number of unread bytes a Handshake reports.
MaxUnread == 2

(* Program constants that live outside handshake_manager.cc, scaled. *)

\* HandshakeManager::max_failed
max_failed == 0
\* PeerConnectionBase::ProtocolRead::buffer_size
buffer_size == 1

Addresses == {"a1", "a2"}
Downloads == {"d1", "d2"}
NULL == "NULL"

\* ConnectionManager encryption option bits, as set members.
encryption_try_outgoing == "encryption_try_outgoing"
encryption_use_proxy == "encryption_use_proxy"
encryption_retrying == "encryption_retrying"
\* PeerList connect flags.
connect_keep_handshakes == "connect_keep_handshakes"
connect_filter_recent == "connect_filter_recent"

\* The values encryption_options() and retry_options() range over.
EncryptionOptions == {{}, {encryption_try_outgoing}}

Range(q) == {q[i] : i \in DOMAIN q}
Min(a, b) == IF a < b THEN a ELSE b

----------------------------------------------------------------------------
(* The manager state the operators work on. *)

State == [registry |-> registry, handshakes |-> handshakes, sockets |-> sockets,
          peer_list |-> peer_list, socket_count |-> socket_count,
          connection_list |-> connection_list]

\* What an operation reports: the exit path it took and what it called.
NoReport == [op |-> "init", h |-> 0, fd |-> 0, path |-> "", sa |-> NULL,
             download |-> NULL, setup |-> FALSE, inserted |-> FALSE,
             reason |-> "", unread |-> 0, calls |-> <<>>, torn |-> {},
             policy |-> {}]

----------------------------------------------------------------------------
(* Descriptors. *)

\* A descriptor enters the manager (accepted by the listener or dialed).
open_fd(s) ==
  [s EXCEPT !.sockets = Append(@, [closed |-> 0, registered |-> FALSE,
                                   promoted |-> FALSE])]

\* SocketFd::close / fd_close
fd_close(s, fd) == [s EXCEPT !.sockets[fd].closed = @ + 1]

\* HandshakeManager::setup_socket; in: what the socket calls and the
\* configured buffer sizes return.
setup_socket(in) ==
  IF ~in.set_nonblock THEN FALSE
  ELSE IF in.send_buffer_size # 0 /\ ~in.set_send THEN FALSE
  ELSE IF in.receive_buffer_size # 0 /\ ~in.set_receive THEN FALSE
  ELSE TRUE

\* One input for every path through setup_socket.
SetupInputs ==
  { [set_nonblock |-> FALSE, send_buffer_size |-> 0, set_send |-> TRUE,
     receive_buffer_size |-> 0, set_receive |-> TRUE],
    [set_nonblock |-> TRUE, send_buffer_size |-> 1, set_send |-> FALSE,
     receive_buffer_size |-> 0, set_receive |-> TRUE],
    [set_nonblock |-> TRUE, send_buffer_size |-> 0, set_send |-> TRUE,
     receive_buffer_size |-> 1, set_receive |-> FALSE],
    [set_nonblock |-> TRUE, send_buffer_size |-> 0, set_send |-> TRUE,
     receive_buffer_size |-> 0, set_receive |-> TRUE],
    [set_nonblock |-> TRUE, send_buffer_size |-> 1, set_send |-> TRUE,
     receive_buffer_size |-> 1, set_receive |-> TRUE] }

----------------------------------------------------------------------------
(* The Handshake object, by its contract. *)

\* new Handshake(fd, this, encryption_options)
new_handshake(s, fd, incoming, sa, download, peer_info) ==
  [s EXCEPT !.handshakes =
      Append(@, [fd |-> fd, has_fd |-> TRUE, incoming |-> incoming, sa |-> sa,
                 download |-> download, peer_info |-> peer_info,
                 active |-> TRUE, freed |-> FALSE, events |-> <<>>])]

is_active(s, h) == s.handshakes[h].active

\* Handshake::deactivate_connection
deactivate_connection(s, h) ==
  [s EXCEPT !.handshakes[h].active = FALSE,
            !.handshakes[h].events = Append(@, "deactivate")]

\* Handshake::destroy_connection: the socket is closed, the buffers released.
destroy_connection(s, h) ==
  [fd_close(s, s.handshakes[h].fd)
     EXCEPT !.handshakes[h].has_fd = FALSE,
            !.handshakes[h].peer_info = NULL,
            !.handshakes[h].events = Append(@, "destroy")]

\* Handshake::release_connection: the socket now belongs to the new owner.
release_connection(s, h) ==
  [s EXCEPT !.handshakes[h].has_fd = FALSE,
            !.handshakes[h].peer_info = NULL,
            !.handshakes[h].events = Append(@, "release")]

\* delete h: the object is gone, only the record of its life remains.
delete_handshake(s, h) ==
  [s EXCEPT !.handshakes[h] =
      [fd |-> @.fd, has_fd |-> @.has_fd, incoming |-> FALSE, sa |-> NULL,
       download |-> NULL, peer_info |-> NULL, active |-> @.active,
       freed |-> TRUE, events |-> Append(@.events, "free")]]

----------------------------------------------------------------------------
(* The per-download peer list and the connection manager, by contract. *)

\* ConnectionManager::inc_socket_count
inc_socket_count(s) == [s EXCEPT !.socket_count = @ + 1]

\* PeerList::disconnected(peerInfo, 0): a failed attempt is recorded.
disconnected(s, download, sa) ==
  [s EXCEPT !.peer_list[<<download, sa>>] = Min(@ + 1, max_failed + 1)]

----------------------------------------------------------------------------
(* The registry. *)

\* base_type::push_back
push_back(s, h) ==
  [s EXCEPT !.registry = Append(@, h),
            !.sockets[s.handshakes[h].fd].registered = TRUE]

\* The connection is destroyed twice.
delete_handshake_destroys_twice(s, h) ==
  delete_handshake(
    destroy_connection(destroy_connection(deactivate_connection(s, h), h), h), h)

\* The connection is destroyed before it is deactivated.
delete_handshake_destroys_first(s, h) ==
  delete_handshake(deactivate_connection(destroy_connection(s, h), h), h)

\* handshake_manager_delete_handshake
handshake_manager_delete_handshake(s, h) ==
  delete_handshake(destroy_connection(deactivate_connection(s, h), h), h)

\* HandshakeManager::add_incoming, once the admission policy has passed:
\* the socket setup and the registration.
add_incoming_admitted(s1, fd, sa, in, rep) ==
  IF ~setup_socket(in.setup)
    THEN [s |-> fd_close(s1, fd),
          r |-> [rep EXCEPT !.path = "setup_failed", !.setup = TRUE]]
  ELSE
    LET s2 == inc_socket_count(s1)
        s3 == new_handshake(s2, fd, TRUE, sa, NULL, NULL)
        h  == Len(s3.handshakes)
    IN  [s |-> push_back(s3, h),
         r |-> [rep EXCEPT !.path = "registered", !.setup = TRUE, !.h = h]]

\* The predicates of the admission policy that were consulted and passed in
\* !manager->connection_manager()->can_connect() || !...->filter(sa).
admission(in) ==
  IF ~in.can_connect THEN {}
  ELSE IF ~in.filter THEN {"can_connect"}
  ELSE {"can_connect", "filter"}

\* A denied descriptor is dropped without being closed.
add_incoming_unclosed(s, sa, in) ==
  LET s1 == open_fd(s)
      fd == Len(s1.sockets)
      rep == [NoReport EXCEPT !.op = "add_incoming", !.fd = fd, !.sa = sa,
                              !.policy = admission(in)]
  IN  IF ~in.can_connect \/ ~in.filter
        THEN [s |-> s1, r |-> [rep EXCEPT !.path = "denied"]]
      ELSE add_incoming_admitted(s1, fd, sa, in, rep)

\* HandshakeManager::add_incoming; in: the answers of the admission policy
\* and of the socket setup.
add_incoming(s, sa, in) ==
  LET s1 == open_fd(s)
      fd == Len(s1.sockets)
      rep == [NoReport EXCEPT !.op = "add_incoming", !.fd = fd, !.sa = sa,
                              !.policy = admission(in)]
  IN  IF ~in.can_connect \/ ~in.filter
        THEN [s |-> fd_close(s1, fd), r |-> [rep EXCEPT !.path = "denied"]]
      ELSE add_incoming_admitted(s1, fd, sa, in, rep)

\* The report of one create_outgoing call.
NoCall == [sa |-> NULL, download |-> NULL, options |-> {},
           connection_options |-> {}, path |-> "", fd |-> 0, h |-> 0,
           dialed |-> FALSE, setup |-> FALSE, disconnected |-> 0]

\* A setup failure is reported to the peer list like a dial failure.
outgoing_dialed_blames_peer(s, sa, download, options, in, call) ==
  LET s1 == open_fd(s)
      file_desc == Len(s1.sockets)
      dialed == [call EXCEPT !.dialed = TRUE, !.setup = TRUE, !.fd = file_desc]
  IN  IF ~setup_socket(in.setup)
        THEN [s |-> disconnected(fd_close(s1, file_desc), download, sa),
              r |-> [dialed EXCEPT !.path = "setup_failed", !.disconnected = 1]]
      ELSE
        LET s2 == inc_socket_count(s1)
            s3 == new_handshake(s2, file_desc, FALSE, sa, download, sa)
            h  == Len(s3.handshakes)
        IN  [s |-> push_back(s3, h),
             r |-> [dialed EXCEPT !.path = "registered", !.h = h]]

\* HandshakeManager::create_outgoing, once connect_socket has returned a
\* descriptor: the socket setup and the registration.
outgoing_dialed(s, sa, download, options, in, call) ==
  LET s1 == open_fd(s)
      file_desc == Len(s1.sockets)
      dialed == [call EXCEPT !.dialed = TRUE, !.setup = TRUE, !.fd = file_desc]
  IN  IF ~setup_socket(in.setup)
        THEN [s |-> fd_close(s1, file_desc),
              r |-> [dialed EXCEPT !.path = "setup_failed"]]
      ELSE
        LET s2 == inc_socket_count(s1)
            s3 == new_handshake(s2, file_desc, FALSE, sa, download, sa)
            h  == Len(s3.handshakes)
        IN  [s |-> push_back(s3, h),
             r |-> [dialed EXCEPT !.path = "registered", !.h = h]]

\* Every attempt is subject to the recent-attempt suppression.
connection_options_always_filtered(encryption_options) ==
  {connect_keep_handshakes, connect_filter_recent}

\* PeerList connect flags of an attempt with these encryption options.
connection_options_of(encryption_options) ==
  {connect_keep_handshakes} \cup
    (IF encryption_retrying \notin encryption_options
       THEN {connect_filter_recent} ELSE {})

\* A dial failure is dropped without telling the peer list.
create_outgoing_silent(s, sa, download, encryption_options, in) ==
  LET peerInfo == IF in.peer THEN <<download, sa>> ELSE NULL
      call == [NoCall EXCEPT !.sa = sa, !.download = download,
                             !.options = encryption_options,
                             !.connection_options =
                                connection_options_of(encryption_options)]
  IN  IF peerInfo = NULL
        THEN [s |-> s, r |-> [call EXCEPT !.path = "no_peer"]]
      ELSE IF s.peer_list[peerInfo] > max_failed
        THEN [s |-> s, r |-> [call EXCEPT !.path = "failed_counter"]]
      ELSE IF ~in.dial
        THEN [s |-> s, r |-> [call EXCEPT !.path = "dial_failed", !.dialed = TRUE]]
      ELSE outgoing_dialed(s, sa, download, encryption_options, in, call)

\* A peer whose failure counter has reached the maximum is refused already.
create_outgoing_refuses_at_max(s, sa, download, encryption_options, in) ==
  LET peerInfo == IF in.peer THEN <<download, sa>> ELSE NULL
      call == [NoCall EXCEPT !.sa = sa, !.download = download,
                             !.options = encryption_options,
                             !.connection_options =
                                connection_options_of(encryption_options)]
  IN  IF peerInfo = NULL
        THEN [s |-> s, r |-> [call EXCEPT !.path = "no_peer"]]
      ELSE IF s.peer_list[peerInfo] >= max_failed
        THEN [s |-> s, r |-> [call EXCEPT !.path = "failed_counter"]]
      ELSE
        LET options == IF in.proxy
                         THEN encryption_options \cup {encryption_use_proxy}
                         ELSE encryption_options
        IN  IF ~in.dial
              THEN [s |-> disconnected(s, download, sa),
                    r |-> [call EXCEPT !.path = "dial_failed", !.dialed = TRUE,
                                       !.disconnected = 1]]
            ELSE outgoing_dialed(s, sa, download, options, in, call)

\* HandshakeManager::create_outgoing; in: what connected(), the proxy
\* address, connect_socket() and the socket setup return.
create_outgoing(s, sa, download, encryption_options, in) ==
  LET peerInfo == IF in.peer THEN <<download, sa>> ELSE NULL
      call == [NoCall EXCEPT !.sa = sa, !.download = download,
                             !.options = encryption_options,
                             !.connection_options =
                                connection_options_of(encryption_options)]
  IN  IF peerInfo = NULL
        THEN [s |-> s, r |-> [call EXCEPT !.path = "no_peer"]]
      ELSE IF s.peer_list[peerInfo] > max_failed
        THEN [s |-> s, r |-> [call EXCEPT !.path = "failed_counter"]]
      ELSE
        LET options == IF in.proxy
                         THEN encryption_options \cup {encryption_use_proxy}
                         ELSE encryption_options
        IN  IF ~in.dial
              THEN [s |-> disconnected(s, download, sa),
                    r |-> [call EXCEPT !.path = "dial_failed", !.dialed = TRUE,
                                       !.disconnected = 1]]
            ELSE outgoing_dialed(s, sa, download, options, in, call)

\* The address filter is not consulted.
add_outgoing_unfiltered(s, sa, download, in) ==
  LET rep == [NoReport EXCEPT !.op = "add_outgoing", !.sa = sa,
                              !.download = download,
                              !.policy = admission(in) \ {"filter"}]
  IN  IF ~in.can_connect
        THEN [s |-> s, r |-> [rep EXCEPT !.path = "denied"]]
      ELSE
        LET co == create_outgoing(s, sa, download, in.options, in.co)
        IN  [s |-> co.s,
             r |-> [rep EXCEPT !.path = co.r.path, !.fd = co.r.fd,
                               !.h = co.r.h, !.setup = co.r.setup,
                               !.calls = <<co.r>>]]

\* HandshakeManager::add_outgoing
add_outgoing(s, sa, download, in) ==
  LET rep == [NoReport EXCEPT !.op = "add_outgoing", !.sa = sa,
                              !.download = download,
                              !.policy = admission(in)]
  IN  IF ~in.can_connect \/ ~in.filter
        THEN [s |-> s, r |-> [rep EXCEPT !.path = "denied"]]
      ELSE
        LET co == create_outgoing(s, sa, download, in.options, in.co)
        IN  [s |-> co.s,
             r |-> [rep EXCEPT !.path = co.r.path, !.fd = co.r.fd,
                               !.h = co.r.h, !.setup = co.r.setup,
                               !.calls = <<co.r>>]]

\* The test of HandshakeManager::erase: the handshake is in the registry.
erase_finds(s, h) == h \in Range(s.registry)

\* The entry is found and left in the registry.
erase_nothing(s, h) == s

\* HandshakeManager::erase, when the handshake is found.
erase(s, h) ==
  LET keep(x) == x # h
  IN  [s EXCEPT !.registry = SelectSeq(@, keep)]

\* ConnectionList::insert, when it returns a connection.
insert(s, h) ==
  LET hs == s.handshakes[h]
  IN  [s EXCEPT !.connection_list =
                    Append(@, [fd |-> hs.fd, unread |-> 0]),
                !.sockets[hs.fd].promoted = TRUE]

\* PeerConnectionBase::push_unread on the connection just inserted.
push_unread(s, size) ==
  [s EXCEPT !.connection_list[Len(s.connection_list)].unread = size]

\* A rejected connection is released instead of destroyed.
receive_succeeded_drops_unclosed(s, h, in) ==
  LET hs  == s.handshakes[h]
      rep == [NoReport EXCEPT !.op = "receive_succeeded", !.h = h,
                              !.fd = hs.fd, !.sa = hs.sa,
                              !.download = hs.download]
  IN  IF ~is_active(s, h)
        THEN [s |-> s, r |-> [rep EXCEPT !.path = "throw_inactive"]]
      ELSE IF ~erase_finds(s, h)
        THEN [s |-> s, r |-> [rep EXCEPT !.path = "throw_erase"]]
      ELSE
        LET s1 == deactivate_connection(erase(s, h), h)
        IN  IF in.is_active /\ in.want_connection /\ in.insert
              THEN
                LET s2 == insert(s1, h)
                    acc == [rep EXCEPT !.inserted = TRUE, !.unread = in.unread_size]
                IN  IF in.unread_size # 0 /\ in.unread_size > buffer_size
                      THEN [s |-> s2, r |-> [acc EXCEPT !.path = "throw_unread"]]
                    ELSE
                      LET s3 == IF in.unread_size # 0
                                  THEN push_unread(s2, in.unread_size) ELSE s2
                      IN  [s |-> delete_handshake(release_connection(s3, h), h),
                           r |-> [acc EXCEPT !.path = "promoted"]]
            ELSE
              LET reason == IF ~in.is_active
                              THEN "e_handshake_inactive_download"
                            ELSE IF in.is_done /\ in.is_all_set
                              THEN "e_handshake_unwanted_connection"
                            ELSE "e_handshake_duplicate"
              IN  [s |-> delete_handshake(release_connection(s1, h), h),
                   r |-> [rep EXCEPT !.path = "dropped", !.reason = reason,
                                     !.inserted = in.is_active /\ in.want_connection,
                                     !.torn = {h}]]

\* HandshakeManager::receive_succeeded; in: the answers of the download, the
\* connection list and the handshake's accessors.
receive_succeeded(s, h, in) ==
  LET hs  == s.handshakes[h]
      rep == [NoReport EXCEPT !.op = "receive_succeeded", !.h = h,
                              !.fd = hs.fd, !.sa = hs.sa,
                              !.download = hs.download]
  IN  IF ~is_active(s, h)
        THEN [s |-> s, r |-> [rep EXCEPT !.path = "throw_inactive"]]
      ELSE IF ~erase_finds(s, h)
        THEN [s |-> s, r |-> [rep EXCEPT !.path = "throw_erase"]]
      ELSE
        LET s1 == deactivate_connection(erase(s, h), h)
        IN  IF in.is_active /\ in.want_connection /\ in.insert
              THEN
                LET s2 == insert(s1, h)
                    acc == [rep EXCEPT !.inserted = TRUE, !.unread = in.unread_size]
                IN  IF in.unread_size # 0 /\ in.unread_size > buffer_size
                      THEN [s |-> s2, r |-> [acc EXCEPT !.path = "throw_unread"]]
                    ELSE
                      LET s3 == IF in.unread_size # 0
                                  THEN push_unread(s2, in.unread_size) ELSE s2
                      IN  [s |-> delete_handshake(release_connection(s3, h), h),
                           r |-> [acc EXCEPT !.path = "promoted"]]
            ELSE
              LET reason == IF ~in.is_active
                              THEN "e_handshake_inactive_download"
                            ELSE IF in.is_done /\ in.is_all_set
                              THEN "e_handshake_unwanted_connection"
                            ELSE "e_handshake_duplicate"
              IN  [s |-> delete_handshake(destroy_connection(s1, h), h),
                   r |-> [rep EXCEPT !.path = "dropped", !.reason = reason,
                                     !.inserted = in.is_active /\ in.want_connection,
                                     !.torn = {h}]]

\* The retry marker is left out.
retry_options_unmarked(options) == options

\* The options of the retry: handshake->retry_options() with the marker.
retry_options_marked(options) == options \cup {encryption_retrying}

\* An inactive handshake is freed before the error is raised.
receive_failed_frees_inactive(s, h, message, error, in) ==
  LET hs  == s.handshakes[h]
      rep == [NoReport EXCEPT !.op = "receive_failed", !.h = h, !.fd = hs.fd,
                              !.sa = hs.sa, !.download = hs.download,
                              !.reason = error]
  IN  IF ~is_active(s, h)
        THEN [s |-> delete_handshake(s, h),
              r |-> [rep EXCEPT !.path = "throw_inactive"]]
      ELSE IF ~erase_finds(s, h)
        THEN [s |-> s, r |-> [rep EXCEPT !.path = "throw_erase"]]
      ELSE
        LET s1 == destroy_connection(deactivate_connection(erase(s, h), h), h)
        IN  IF in.should_retry
              THEN
                LET co == create_outgoing(s1, hs.sa, hs.download,
                            retry_options_marked(in.retry_options), in.co)
                IN  [s |-> delete_handshake(co.s, h),
                     r |-> [rep EXCEPT !.path = "retried", !.calls = <<co.r>>,
                                       !.torn = {h}]]
            ELSE [s |-> delete_handshake(s1, h),
                  r |-> [rep EXCEPT !.path = "failed", !.torn = {h}]]

\* HandshakeManager::receive_failed; in: should_retry(), retry_options() and
\* the answers create_outgoing gets.
receive_failed(s, h, message, error, in) ==
  LET hs  == s.handshakes[h]
      rep == [NoReport EXCEPT !.op = "receive_failed", !.h = h, !.fd = hs.fd,
                              !.sa = hs.sa, !.download = hs.download,
                              !.reason = error]
  IN  IF ~is_active(s, h)
        THEN [s |-> s, r |-> [rep EXCEPT !.path = "throw_inactive"]]
      ELSE IF ~erase_finds(s, h)
        THEN [s |-> s, r |-> [rep EXCEPT !.path = "throw_erase"]]
      ELSE
        LET sa == hs.sa
            s1 == destroy_connection(deactivate_connection(erase(s, h), h), h)
        IN  IF in.should_retry
              THEN
                LET retry_options == retry_options_marked(in.retry_options)
                    co == create_outgoing(s1, sa, hs.download, retry_options, in.co)
                IN  [s |-> delete_handshake(co.s, h),
                     r |-> [rep EXCEPT !.path = "retried", !.calls = <<co.r>>,
                                       !.torn = {h}]]
            ELSE [s |-> delete_handshake(s1, h),
                  r |-> [rep EXCEPT !.path = "failed", !.torn = {h}]]

\* Every timeout is classified as a stalled negotiation.
receive_timeout_always_stalled(s, h, state, in) ==
  LET res == receive_failed(s, h, "handshake_failed",
                            "e_handshake_network_timeout", in)
  IN  [s |-> res.s, r |-> [res.r EXCEPT !.op = "receive_timeout"]]

\* HandshakeManager::receive_timeout; state: h->state()
receive_timeout(s, h, state, in) ==
  LET res == receive_failed(s, h, "handshake_failed",
                            IF state = "CONNECTING"
                              THEN "e_handshake_network_unreachable"
                              ELSE "e_handshake_network_timeout", in)
  IN  [s |-> res.s, r |-> [res.r EXCEPT !.op = "receive_timeout"]]

RECURSIVE for_each_delete(_, _)
\* std::for_each(..., handshake_manager_delete_handshake) over a range
for_each_delete(s, q) ==
  IF q = <<>> THEN s
  ELSE for_each_delete(handshake_manager_delete_handshake(s, Head(q)), Tail(q))

\* The handshakes are deleted and their entries stay in the registry.
clear_keeps_entries(s) ==
  [s |-> for_each_delete(s, s.registry),
   r |-> [NoReport EXCEPT !.op = "clear", !.torn = Range(s.registry),
                          !.path = IF s.registry = <<>> THEN "empty"
                                   ELSE "torn"]]

\* HandshakeManager::clear
clear(s) ==
  LET s1 == for_each_delete(s, s.registry)
  IN  [s |-> [s1 EXCEPT !.registry = <<>>],
       r |-> [NoReport EXCEPT !.op = "clear", !.torn = Range(s.registry),
                              !.path = IF s.registry = <<>> THEN "empty"
                                       ELSE "torn"]]

\* std::partition: the elements that satisfy the predicate come first, in an
\* order the standard leaves open; front is the order chosen.
Partitions(s, info) ==
  LET keep == {h \in Range(s.registry) : s.handshakes[h].download # info}
  IN  {q \in [1..Cardinality(keep) -> keep] : Range(q) = keep}

\* Every handshake is deleted, not only those behind the split.
erase_download_deletes_all(s, info, front) ==
  LET goes(x)  == s.handshakes[x].download = info
      back == SelectSeq(s.registry, goes)
      s1 == for_each_delete(s, s.registry)
  IN  [s |-> [s1 EXCEPT !.registry = front],
       r |-> [NoReport EXCEPT !.op = "erase_download", !.download = info,
                              !.torn = Range(back),
                              !.path = IF back = <<>> THEN "empty" ELSE "torn"]]

\* HandshakeManager::erase_download
erase_download(s, info, front) ==
  LET goes(x)  == s.handshakes[x].download = info
      back == SelectSeq(s.registry, goes)
      s1 == for_each_delete(s, back)
  IN  [s |-> [s1 EXCEPT !.registry = front],
       r |-> [NoReport EXCEPT !.op = "erase_download", !.download = info,
                              !.torn = Range(back),
                              !.path = IF back = <<>> THEN "empty" ELSE "torn"]]

\* The address of the connection is compared, resolved or not.
handshake_manager_equal_unresolved(s, sa, h) == sa = s.handshakes[h].sa

\* handshake_manager_equal
handshake_manager_equal(s, sa, h) ==
  s.handshakes[h].peer_info # NULL /\ sa = s.handshakes[h].peer_info

\* HandshakeManager::find
find(s, sa) == \E i \in DOMAIN s.registry : handshake_manager_equal(s, sa, s.registry[i])

\* HandshakeManager::size_info
size_info(s, info) ==
  Cardinality({i \in DOMAIN s.registry : s.handshakes[s.registry[i]].download = info})

----------------------------------------------------------------------------
(* The actions: one call of the manager each. *)

\* What lastOp keeps of a report: the operation, its exit path, the exit
\* path of the create_outgoing call a retry made, whether the call dialed,
\* whether the socket setup ran, the peer disconnected() was called for,
\* whether both predicates of the admission policy were consulted and passed
\* and the connect flags connected() was called with.
Slim(r) == [op |-> r.op, path |-> r.path,
            retry |-> IF r.op \in {"receive_failed", "receive_timeout"}
                         /\ r.calls # <<>>
                        THEN r.calls[1].path ELSE "",
            setup |-> r.setup \/ (r.calls # <<>> /\ r.calls[1].setup),
            dialed |-> r.calls # <<>> /\ r.calls[1].dialed,
            admitted |-> r.policy = {"can_connect", "filter"},
            connection_options |-> IF r.calls # <<>>
                                     THEN r.calls[1].connection_options
                                     ELSE {},
            disconnected |-> IF r.calls # <<>> /\ r.calls[1].disconnected = 1
                               THEN <<r.calls[1].download, r.calls[1].sa>>
                               ELSE NULL]

\* The lastOp of a step that is no operation of the manager.
NoOp(op) == [op |-> op, path |-> "", retry |-> "", setup |-> FALSE,
             dialed |-> FALSE, admitted |-> FALSE, connection_options |-> {},
             disconnected |-> NULL]

Install(res) ==
  /\ registry' = res.s.registry
  /\ handshakes' = res.s.handshakes
  /\ sockets' = res.s.sockets
  /\ peer_list' = res.s.peer_list
  /\ socket_count' = res.s.socket_count
  /\ connection_list' = res.s.connection_list
  /\ lastOp' = Slim(res.r)

\* Room for one more connection attempt.
Room == counts.attempts < MaxAttempts

\* The Handshake objects that exist: constructed and not freed.
Live == {h \in DOMAIN handshakes : ~handshakes[h].freed}

AnySetup == CHOOSE su \in SetupInputs : setup_socket(su)

\* The answers create_outgoing can get.
OutgoingInputs ==
  [peer : BOOLEAN, proxy : BOOLEAN, dial : BOOLEAN, setup : SetupInputs]

NoOutgoing == [peer |-> FALSE, proxy |-> FALSE, dial |-> FALSE, setup |-> AnySetup]

\* The same, with the answers create_outgoing does not come to read fixed.
PlainOutgoing == [peer |-> TRUE, proxy |-> FALSE, dial |-> TRUE, setup |-> AnySetup]

\* One input for every path through create_outgoing, and one with a proxy.
OutgoingCases ==
  {in \in OutgoingInputs :
     /\ ~in.peer => ~in.dial
     /\ ~in.dial => in.setup = AnySetup /\ ~in.proxy
     /\ in.proxy => in.setup = AnySetup}

\* The answers of the admission policy and what follows it, for add_incoming.
IncomingInputs ==
  [can_connect : BOOLEAN, filter : BOOLEAN, setup : SetupInputs]

IncomingCases ==
  {in \in IncomingInputs : ~(in.can_connect /\ in.filter) => in.setup = AnySetup}

\* The same for add_outgoing.
AddOutgoingInputs ==
  [can_connect : BOOLEAN, filter : BOOLEAN, options : EncryptionOptions,
   co : OutgoingInputs]

AddOutgoingCases ==
  {in \in [can_connect : BOOLEAN, filter : BOOLEAN,
           options : EncryptionOptions, co : OutgoingCases] :
     /\ ~(in.can_connect /\ in.filter) => in.co = PlainOutgoing
     /\ in.options # {} => in.co = PlainOutgoing}

\* The answers receive_succeeded can get.
SucceededInputs ==
  [is_active : BOOLEAN, want_connection : BOOLEAN, insert : BOOLEAN,
   unread_size : 0..MaxUnread, is_done : BOOLEAN, is_all_set : BOOLEAN]

\* One input for every path through receive_succeeded and every reason.
SucceededCases ==
  {in \in SucceededInputs :
     /\ ~in.is_active => ~in.want_connection /\ ~in.is_done
     /\ ~in.want_connection => ~in.insert
     /\ ~in.insert => in.unread_size = 0
     /\ in.want_connection => ~in.is_done
     /\ in.is_all_set = in.is_done}

\* What an inactive handshake is asked: nothing.
NoSucceededInput ==
  [is_active |-> FALSE, want_connection |-> FALSE, insert |-> FALSE,
   unread_size |-> 0, is_done |-> FALSE, is_all_set |-> FALSE]

\* The answers receive_failed can get: with a retry, and without.
RetryInputs ==
  [should_retry : {TRUE}, retry_options : EncryptionOptions, co : OutgoingInputs]
RetryCases ==
  {in \in [should_retry : {TRUE}, retry_options : EncryptionOptions,
           co : OutgoingCases] :
     in.retry_options # {} => in.co = PlainOutgoing}
NoRetryInput == [should_retry |-> FALSE, retry_options |-> {}, co |-> NoOutgoing]

\* Only an outgoing handshake asks for a retry.
FailedCases(h) ==
  {NoRetryInput} \cup
    (IF Room /\ ~handshakes[h].incoming /\ handshakes[h].active
       THEN RetryCases ELSE {})

Registered(res) == IF res.r.path = "registered" THEN 1 ELSE 0
Attempted(res) == Len(res.r.calls)
Retried(res) ==
  IF res.r.calls # <<>> /\ res.r.calls[1].path = "registered" THEN 1 ELSE 0
Processed(res) ==
  IF res.r.path \in {"throw_inactive", "throw_erase"} THEN 0 ELSE 1

AddIncoming ==
  /\ Room
  /\ \E sa \in Addresses, in \in IncomingCases :
       LET res == add_incoming(State, sa, in)
       IN  /\ Install(res)
           /\ counts' = [counts EXCEPT !.admitted = @ + Registered(res),
                                       !.attempts = @ + 1]

AddOutgoing ==
  /\ Room
  /\ \E sa \in Addresses, d \in Downloads, in \in AddOutgoingCases :
       LET res == add_outgoing(State, sa, d, in)
       IN  /\ Install(res)
           /\ counts' = [counts EXCEPT !.admitted = @ + Registered(res),
                                       !.attempts = @ + 1]

\* The Handshake of an incoming connection learns its download and its peer.
Identify ==
  \E h \in Live, d \in Downloads :
    /\ handshakes[h].active /\ handshakes[h].incoming
    /\ handshakes[h].download = NULL
    /\ handshakes' = [handshakes EXCEPT ![h].download = d,
                                        ![h].peer_info = handshakes[h].sa]
    /\ lastOp' = NoOp("identify")
    /\ UNCHANGED <<registry, sockets, peer_list, socket_count,
                   connection_list, counts>>

\* A Handshake reports success; one that is no longer active reports it by
\* a programming defect.
ReceiveSucceeded ==
  \E h \in Live :
    /\ handshakes[h].download # NULL
    /\ \E in \in IF handshakes[h].active THEN SucceededCases
                   ELSE {NoSucceededInput} :
         LET res == receive_succeeded(State, h, in)
         IN  /\ Install(res)
             /\ counts' = [counts EXCEPT !.terminal = @ + Processed(res)]

ReceiveFailed ==
  \E h \in Live :
    \E in \in FailedCases(h) :
      LET res == receive_failed(State, h, "handshake_failed",
                                "e_handshake_network_error", in)
      IN  /\ Install(res)
          /\ counts' = [counts EXCEPT !.terminal = @ + Processed(res),
                                      !.retried = @ + Retried(res),
                                      !.attempts = @ + Attempted(res)]

ReceiveTimeout ==
  \E h \in Live :
    \E in \in FailedCases(h), state \in {"CONNECTING", "READ_INFO"} :
      /\ state = "CONNECTING" => in \in {NoRetryInput} \/ in.co = PlainOutgoing
      /\ LET res == receive_timeout(State, h, state, in)
         IN  /\ Install(res)
             /\ counts' = [counts EXCEPT !.terminal = @ + Processed(res),
                                         !.retried = @ + Retried(res),
                                         !.attempts = @ + Attempted(res)]

Clear ==
  LET res == clear(State)
  IN  /\ Install(res)
      /\ counts' = [counts EXCEPT !.bulk = @ + Cardinality(res.r.torn)]

EraseDownload ==
  \E info \in Downloads :
    \E front \in Partitions(State, info) :
      LET res == erase_download(State, info, front)
      IN  /\ Install(res)
          /\ counts' = [counts EXCEPT !.bulk = @ + Cardinality(res.r.torn)]

Init ==
  /\ registry = <<>>
  /\ handshakes = <<>>
  /\ sockets = <<>>
  /\ peer_list = [p \in Downloads \X Addresses |-> 0]
  /\ socket_count = 0
  /\ connection_list = <<>>
  /\ counts = [attempts |-> 0, admitted |-> 0, retried |-> 0, terminal |-> 0,
               bulk |-> 0]
  /\ lastOp = NoOp("init")

Next ==
  \/ AddIncoming
  \/ AddOutgoing
  \/ Identify
  \/ ReceiveSucceeded
  \/ ReceiveFailed
  \/ ReceiveTimeout
  \/ Clear
  \/ EraseDownload

Spec == Init /\ [][Next]_vars
----------------------------------------------------------------------------
(* Helpers of the properties. *)

\* The handshakes a terminal callback is meant for.
ActiveRegistered == {h \in Range(registry) : handshakes[h].active}

\* The answers receive_failed can get for handshake h, whatever room is left.
FailedInputs(h) ==
  {NoRetryInput} \cup (IF handshakes[h].incoming THEN {} ELSE RetryCases)

HandshakeStates == {"CONNECTING", "READ_INFO"}

\* The sockets of s2 are those of s1 and n new ones.
SocketsKept(s1, s2, n) ==
  /\ Len(s2.sockets) = Len(s1.sockets) + n
  /\ \A fd \in DOMAIN s1.sockets : s2.sockets[fd] = s1.sockets[fd]

\* The life of a handshake that was torn down, and of one that was promoted.
TornDown == <<"deactivate", "destroy", "free">>
Promoted == <<"deactivate", "release", "free">>

----------------------------------------------------------------------------
(* C1 *)

\* C1, as stated: as long as only add_incoming, add_outgoing and the
\* receive_* callbacks have removed or added entries, the registry size is the
\* number of add_incoming/add_outgoing calls that registered a Handshake
\* minus the number of Handshakes that reached a terminal outcome.
C1_SizeIsAdmittedMinusTerminal ==
  counts.bulk = 0 => Len(registry) = counts.admitted - counts.terminal

\* C1, amended: the Handshakes that the retries of receive_failed and
\* receive_timeout registered count as admitted too.
C1_SizeCountsRetries ==
  counts.bulk = 0 =>
    Len(registry) = counts.admitted + counts.retried - counts.terminal

C1_Witness ==
  /\ counts.bulk = 0 /\ counts.retried > 0 /\ counts.terminal > 0
  /\ counts.admitted > 0 /\ Len(registry) > 0

----------------------------------------------------------------------------
(* C2 *)

\* C2: between operations every descriptor that entered the manager is owned
\* by a registered Handshake, owned by a promoted connection, or closed; and
\* every Handshake constructed is registered or freed.
C2_NoLeak ==
  /\ \A fd \in DOMAIN sockets :
       \/ \E h \in Range(registry) :
            handshakes[h].fd = fd /\ handshakes[h].has_fd
       \/ \E i \in DOMAIN connection_list : connection_list[i].fd = fd
       \/ sockets[fd].closed > 0
  /\ \A h \in DOMAIN handshakes : h \in Range(registry) \/ handshakes[h].freed

----------------------------------------------------------------------------
(* C3 *)

\* C3: no socket is closed twice and no Handshake is registered twice; a
\* descriptor that was never registered was closed directly; the socket of a
\* Handshake that was torn down was closed exactly once; the socket of a
\* promoted Handshake was not closed; nor was that of a registered one.
C3_ClosedOnceRegisteredOnce ==
  /\ \A fd \in DOMAIN sockets : sockets[fd].closed <= 1
  /\ \A i, j \in DOMAIN registry : registry[i] = registry[j] => i = j
  /\ \A fd \in DOMAIN sockets :
       ~sockets[fd].registered =>
          /\ sockets[fd].closed = 1
          /\ \A h \in DOMAIN handshakes : handshakes[h].fd # fd
  /\ \A h \in DOMAIN handshakes :
       LET so == sockets[handshakes[h].fd]
       IN  /\ so.registered
           /\ handshakes[h].events = TornDown => so.closed = 1 /\ ~so.promoted
           /\ so.promoted => so.closed = 0
           /\ h \in Range(registry) => so.closed = 0

C3_Witness ==
  /\ \E h \in DOMAIN handshakes :
       handshakes[h].events = TornDown /\ sockets[handshakes[h].fd].closed = 1
  /\ \E h \in DOMAIN handshakes :
       handshakes[h].events = Promoted /\ sockets[handshakes[h].fd].closed = 0

----------------------------------------------------------------------------
(* C4 *)

\* What C4 asks of one receive_failed or receive_timeout call on h.
RetryAsSignalled(h, in, res) ==
  IF in.should_retry
    THEN /\ Len(res.r.calls) = 1
         /\ res.r.calls[1].sa = handshakes[h].sa
         /\ res.r.calls[1].download = handshakes[h].download
         /\ res.r.calls[1].options = in.retry_options \cup {encryption_retrying}
    ELSE res.r.calls = <<>>

\* C4: receive_failed or receive_timeout on a registered Handshake that
\* signals should-retry calls create_outgoing exactly once, for the same
\* address and download, with the retry options and the retry marker; without
\* the signal it does not call create_outgoing.
C4_RetryExactlyWhenSignalled ==
  [](\A h \in ActiveRegistered : \A in \in FailedInputs(h) :
       /\ RetryAsSignalled(h, in, receive_failed(State, h, "handshake_failed",
                                                 "e_handshake_network_error", in))
       /\ \A state \in HandshakeStates :
            RetryAsSignalled(h, in, receive_timeout(State, h, state, in)))

C4_Witness ==
  /\ lastOp.op \in {"receive_failed", "receive_timeout"}
  /\ lastOp.path = "retried" /\ lastOp.retry = "registered"

----------------------------------------------------------------------------
(* C5 *)

\* C5: erase_download(info) removes from the registry every Handshake of
\* that download, deactivates, destroys and frees it and closes its socket;
\* every other Handshake stays registered and is left as it was, with its
\* socket.
C5_EraseDownloadFrame ==
  [](\A info \in Downloads : \A front \in Partitions(State, info) :
       LET res == erase_download(State, info, front)
       IN  /\ \A h \in Range(registry) :
                IF handshakes[h].download = info
                  THEN /\ h \notin Range(res.s.registry)
                       /\ res.s.handshakes[h].freed
                       /\ ~res.s.handshakes[h].active
                       /\ res.s.handshakes[h].events = TornDown
                       /\ res.s.sockets[handshakes[h].fd].closed = 1
                  ELSE /\ h \in Range(res.s.registry)
                       /\ res.s.handshakes[h] = handshakes[h]
                       /\ res.s.sockets[handshakes[h].fd] = sockets[handshakes[h].fd]
           /\ Len(res.s.registry) =
                Cardinality({h \in Range(registry) : handshakes[h].download # info})
           /\ \A h \in DOMAIN handshakes \ Range(registry) :
                res.s.handshakes[h] = handshakes[h])

C5_Witness ==
  /\ lastOp.op = "erase_download" /\ lastOp.path = "torn"
  /\ \E h \in Range(registry) : handshakes[h].active
  /\ \E h \in DOMAIN handshakes : handshakes[h].events = TornDown

----------------------------------------------------------------------------
(* C6 *)

\* An active Handshake whose resolved peer identity has address sa.
ResolvedTo(sa) ==
  {h \in DOMAIN handshakes :
     /\ ~handshakes[h].freed /\ handshakes[h].active
     /\ handshakes[h].peer_info # NULL /\ handshakes[h].peer_info = sa}

\* The first half of C6: find(sa) is true exactly when some active Handshake
\* is resolved to sa.
FindIffResolved == \A sa \in Addresses : find(State, sa) <=> ResolvedTo(sa) # {}

\* A step in which a terminal callback was processed for handshake h.
TerminalStep(h) ==
  /\ lastOp'.op \in {"receive_succeeded", "receive_failed", "receive_timeout"}
  /\ h \in Range(registry) /\ handshakes[h].active
  /\ ~handshakes'[h].active

\* C6, as stated: find(sa) is true exactly when some active Handshake is
\* resolved to sa, and once the terminal outcome of a Handshake resolved to
\* sa has been processed find(sa) is false.
C6_FindFalseAfterTerminal ==
  /\ []FindIffResolved
  /\ [][\A h \in DOMAIN handshakes :
          TerminalStep(h) /\ handshakes[h].peer_info # NULL =>
            ~find(State', handshakes[h].peer_info)]_vars

\* C6, amended: after the terminal outcome find(sa) is true exactly when
\* another registered Handshake is resolved to sa or the retry of
\* receive_failed or receive_timeout registered a new Handshake for sa.
C6_FindAfterTerminal ==
  /\ []FindIffResolved
  /\ [][\A h \in DOMAIN handshakes :
          TerminalStep(h) /\ handshakes[h].peer_info # NULL =>
            (find(State', handshakes[h].peer_info) <=>
               \/ ResolvedTo(handshakes[h].peer_info) # {h}
               \/ lastOp'.retry = "registered")]_vars

C6_Witness ==
  /\ lastOp.op = "receive_failed" /\ lastOp.path = "failed"
  /\ \E sa \in Addresses : find(State, sa)
  /\ \E sa \in Addresses : ~find(State, sa)

----------------------------------------------------------------------------
(* C7 *)

\* C7: clear() on an empty registry changes nothing; on a populated one it
\* empties the registry, closes the socket of every registered Handshake
\* once and frees the Handshake, and leaves everything else alone; a second
\* clear() changes nothing more.
C7_ClearIdempotent ==
  [](LET res == clear(State)
     IN  /\ registry = <<>> => res.s = State
         /\ res.s.registry = <<>>
         /\ \A h \in Range(registry) :
              /\ res.s.handshakes[h].freed
              /\ res.s.handshakes[h].events = TornDown
              /\ sockets[handshakes[h].fd].closed = 0
              /\ res.s.sockets[handshakes[h].fd].closed = 1
         /\ \A h \in DOMAIN handshakes \ Range(registry) :
              /\ res.s.handshakes[h] = handshakes[h]
              /\ handshakes[h].freed =>
                   res.s.sockets[handshakes[h].fd] = sockets[handshakes[h].fd]
         /\ clear(res.s).s = res.s)

C7_Witness ==
  /\ lastOp.op = "clear" /\ lastOp.path = "torn" /\ registry = <<>>
  /\ \E h \in DOMAIN handshakes : handshakes[h].events = TornDown

----------------------------------------------------------------------------
(* C8 *)

\* C8: when the admission policy denies, add_incoming closes the descriptor
\* it was given, does not attempt socket setup, creates no Handshake and
\* leaves the registry and the open-socket counter as they were.
C8_DeniedIncoming ==
  [][lastOp'.op = "add_incoming" /\ lastOp'.path = "denied" =>
       /\ SocketsKept(State, State', 1)
       /\ sockets'[Len(sockets')].closed = 1
       /\ ~sockets'[Len(sockets')].registered
       /\ ~lastOp'.setup
       /\ handshakes' = handshakes
       /\ registry' = registry
       /\ socket_count' = socket_count]_vars

C8_Witness ==
  /\ lastOp.op = "add_incoming" /\ lastOp.path = "denied"
  /\ registry # <<>>
  /\ sockets[Len(sockets)].closed = 1 /\ ~sockets[Len(sockets)].registered

----------------------------------------------------------------------------
(* C9, C10 *)

\* A step of add_outgoing whose create_outgoing call left by this path.
FirstAttempt(path) == lastOp'.op = "add_outgoing" /\ lastOp'.path = path

\* A step in which the failure of handshake h was processed and the retry's
\* create_outgoing call left by this path.
RetryOf(h, path) ==
  /\ lastOp'.op \in {"receive_failed", "receive_timeout"}
  /\ lastOp'.retry = path
  /\ h \in Range(registry) /\ handshakes[h].active
  /\ handshakes'[h].freed

\* What processing the failure of h leaves when it does not retry.
Unretried(h) ==
  receive_failed(State, h, "handshake_failed", "e_handshake_network_error",
                 NoRetryInput).s

\* This step's create_outgoing call, made in state s, closed the descriptor
\* it dialed and did nothing else.
SetupFailedFrom(s) ==
  /\ SocketsKept(s, State', 1)
  /\ sockets'[Len(sockets')].closed = 1
  /\ ~sockets'[Len(sockets')].registered
  /\ lastOp'.setup
  /\ lastOp'.disconnected = NULL
  /\ peer_list' = s.peer_list
  /\ handshakes' = s.handshakes
  /\ registry' = s.registry
  /\ socket_count' = s.socket_count

\* This step's create_outgoing call, made in state s, called disconnected
\* for the peer and did nothing else.
DialFailedFrom(s, peer) ==
  /\ lastOp'.disconnected = peer
  /\ peer_list' = [s.peer_list EXCEPT ![peer] = @ + 1]
  /\ ~lastOp'.setup
  /\ sockets' = s.sockets
  /\ handshakes' = s.handshakes
  /\ registry' = s.registry
  /\ socket_count' = s.socket_count

\* C9: when the dial succeeds and the socket setup fails, create_outgoing
\* closes the dialed descriptor, does not call disconnected (the failure
\* counters stay as they were), creates no Handshake and leaves the
\* open-socket counter and the registry as they were, in a first attempt and
\* in a retry.
C9_SetupFailureOutgoing ==
  [][/\ FirstAttempt("setup_failed") => SetupFailedFrom(State)
     /\ \A h \in DOMAIN handshakes :
          RetryOf(h, "setup_failed") => SetupFailedFrom(Unretried(h))]_vars

C9_Witness ==
  /\ lastOp.op = "add_outgoing" /\ lastOp.path = "setup_failed"
  /\ sockets[Len(sockets)].closed = 1
  /\ \A p \in DOMAIN peer_list : peer_list[p] = 0

\* C10: when the dial fails, create_outgoing calls disconnected once for the
\* peer record of the address and does nothing else: no socket setup, no
\* descriptor, no Handshake, the open-socket counter and the registry as
\* they were, in a first attempt and in a retry.
C10_DialFailureOutgoing ==
  [][/\ FirstAttempt("dial_failed") =>
          /\ lastOp'.disconnected # NULL
          /\ DialFailedFrom(State, lastOp'.disconnected)
     /\ \A h \in DOMAIN handshakes :
          RetryOf(h, "dial_failed") =>
            DialFailedFrom(Unretried(h),
                           <<handshakes[h].download, handshakes[h].sa>>)]_vars

C10_Witness ==
  /\ lastOp.op = "add_outgoing" /\ lastOp.path = "dial_failed"
  /\ \E p \in DOMAIN peer_list : peer_list[p] = 1
  /\ registry # <<>>
----------------------------------------------------------------------------
(* C11 *)

\* An answer that accepts the connection, and one that asks for a retry that
\* would register a Handshake.
AcceptingInput ==
  [is_active |-> TRUE, want_connection |-> TRUE, insert |-> TRUE,
   unread_size |-> 0, is_done |-> FALSE, is_all_set |-> FALSE]
RetryingInput ==
  [should_retry |-> TRUE, retry_options |-> {}, co |-> PlainOutgoing]

\* The states a Handshake can time out in.
TimeoutStates == HandshakeStates \cup {"READ_BITFIELD"}

\* What receive_timeout on h in this state does, against receive_failed on h
\* with the same answers and the reason the timeout reported.
TimeoutAsFailure(h, state, in) ==
  LET t == receive_timeout(State, h, state, in)
      f == receive_failed(State, h, "handshake_failed", t.r.reason, in)
      hs == handshakes[h]
  IN  /\ t.s = f.s
      /\ t.r.path = f.r.path /\ t.r.calls = f.r.calls /\ t.r.torn = f.r.torn
      /\ t.r.reason = "e_handshake_network_unreachable" <=> state = "CONNECTING"
      /\ t.r.reason = "e_handshake_network_timeout" <=> state # "CONNECTING"
      /\ (state = "CONNECTING" /\ in.should_retry /\ h \in ActiveRegistered) =>
            /\ Len(t.r.calls) = 1
            /\ t.r.calls[1].sa = hs.sa
            /\ t.r.calls[1].download = hs.download
            /\ encryption_retrying \in t.r.calls[1].options

\* C11: receive_timeout(h) does what receive_failed does on h with the
\* reason "network unreachable" exactly when h's state is CONNECTING and
\* "network timeout" in every other state; a timeout while CONNECTING with
\* the retry signal issues an outgoing attempt to the same address with the
\* retry marker.
C11_TimeoutClassified ==
  [](\A h \in Live : \A state \in TimeoutStates :
       \A in \in {NoRetryInput} \cup
                  (IF handshakes[h].incoming THEN {} ELSE {RetryingInput}) :
         TimeoutAsFailure(h, state, in))

C11_Witness ==
  /\ lastOp.op = "receive_timeout" /\ lastOp.path = "retried"
  /\ lastOp.retry = "registered"
  /\ \E h \in DOMAIN handshakes : handshakes[h].events = TornDown
  /\ registry # <<>>
----------------------------------------------------------------------------
(* C12 *)

\* The answers with which receive_succeeded accepts the connection.
AcceptingInputs ==
  {in \in SucceededInputs :
     in.is_active /\ in.want_connection /\ in.insert
       /\ ~in.is_done /\ ~in.is_all_set}

\* The handshakes that can report success: registered, active, identified.
Succeeding == {h \in ActiveRegistered : handshakes[h].download # NULL}

\* C12: receive_succeeded on an active Handshake whose download is active,
\* whose peer is wanted and whose insertion succeeds removes the Handshake
\* from the registry, gives the promoted connection all the unread bytes,
\* hands the socket over without closing it and frees the Handshake.
C12_Promotion ==
  \A h \in Succeeding : \A in \in AcceptingInputs :
    LET res == receive_succeeded(State, h, in)
        fd  == handshakes[h].fd
        pcb == res.s.connection_list[Len(res.s.connection_list)]
    IN  /\ h \notin Range(res.s.registry)
        /\ Len(res.s.connection_list) = Len(connection_list) + 1
        /\ pcb.fd = fd /\ pcb.unread = in.unread_size
        /\ res.s.sockets[fd].closed = 0
        /\ res.s.sockets[fd].promoted
        /\ ~res.s.handshakes[h].has_fd
        /\ res.s.handshakes[h].freed
----------------------------------------------------------------------------
(* C13 *)

\* The Handshake objects that exist and are not active.
Inactive == {h \in Live : ~handshakes[h].active}

\* The call raised the inactive-handshake error and did nothing else.
OnlyThrown(res) ==
  /\ res.r.path = "throw_inactive"
  /\ res.s = State
  /\ res.r.calls = <<>> /\ res.r.torn = {} /\ ~res.r.inserted

\* C13: receive_succeeded, receive_failed and receive_timeout on a Handshake
\* that is not active raise the fatal error and change nothing, whatever the
\* collaborators would have answered: no retry, no promotion, no teardown.
C13_InactiveIsFatal ==
  \A h \in Inactive :
    /\ \A in \in {NoSucceededInput, AcceptingInput} :
         OnlyThrown(receive_succeeded(State, h, in))
    /\ \A in \in {NoRetryInput, RetryingInput} :
         /\ OnlyThrown(receive_failed(State, h, "handshake_failed",
                                      "e_handshake_network_error", in))
         /\ \A state \in HandshakeStates :
              OnlyThrown(receive_timeout(State, h, state, in))

C13_Witness ==
  /\ lastOp.op \in {"receive_succeeded", "receive_failed", "receive_timeout"}
  /\ lastOp.path = "throw_inactive"
  /\ Inactive # {}
----------------------------------------------------------------------------
(* C14 *)

\* This step dialed a socket or applied the socket setup (which every
\* registration follows).
SocketWork == lastOp'.dialed \/ lastOp'.setup

\* C14, as stated: on every path that dials, applies the socket setup or
\* registers a Handshake, the retry issued by receive_failed included, both
\* predicates of the admission policy were consulted and passed for the
\* attempt before the socket work.
C14_EveryAttemptAdmitted ==
  [][SocketWork => lastOp'.admitted]_vars

\* C14, amended: an attempt that enters through add_incoming or add_outgoing
\* does its socket work only after both predicates passed; the retry issued
\* by receive_failed or receive_timeout calls create_outgoing directly and
\* does its socket work without consulting the admission policy.
C14_EntryPointsAdmitted ==
  [][SocketWork =>
       IF lastOp'.op \in {"add_incoming", "add_outgoing"}
         THEN lastOp'.admitted
         ELSE /\ lastOp'.op \in {"receive_failed", "receive_timeout"}
              /\ lastOp'.path = "retried"
              /\ ~lastOp'.admitted]_vars

C14_Witness ==
  /\ lastOp.op = "receive_failed" /\ lastOp.path = "retried"
  /\ lastOp.dialed /\ lastOp.setup /\ ~lastOp.admitted
  /\ counts.admitted > 0
----------------------------------------------------------------------------
(* C15 *)

\* C15: between operations a Handshake is in the registry exactly when it is
\* active, and every Handshake that is no longer in the registry has been
\* deactivated and freed by the operation that removed it.
C15_RegisteredIffActive ==
  \A h \in DOMAIN handshakes :
    /\ h \in Range(registry) <=> handshakes[h].active
    /\ h \notin Range(registry) =>
         /\ handshakes[h].freed
         /\ "deactivate" \in Range(handshakes[h].events)
----------------------------------------------------------------------------
(* C16 *)

\* The Handshakes whose life has ended: removed from the registry.
Ended == DOMAIN handshakes \ Range(registry)

\* The operations that deactivated a Handshake in this step.
Deactivating(ops) ==
  \A h \in DOMAIN handshakes :
    (handshakes[h].active /\ ~handshakes'[h].active) => lastOp'.op \in ops

TerminalCallbacks == {"receive_succeeded", "receive_failed", "receive_timeout"}

LifeInOrder ==
  \A h \in DOMAIN handshakes :
    LET ev == handshakes[h].events
    IN  /\ \E n \in 0..3 : ev \in {SubSeq(TornDown, 1, n), SubSeq(Promoted, 1, n)}
        /\ handshakes[h].freed <=> ev \in {TornDown, Promoted}
        /\ handshakes[h].active <=> ev = <<>>
        /\ "release" \in Range(ev) => sockets[handshakes[h].fd].promoted
        /\ "destroy" \in Range(ev) => ~sockets[handshakes[h].fd].promoted
        /\ h \in Range(registry) => handshakes[h].active

----------------------------------------------------------------------------
(* C17 *)

\* The answers with which receive_succeeded rejects the connection; what
\* the short-circuit does not come to ask is fixed.
RejectingInputs ==
  {in \in SucceededInputs :
     /\ ~(in.is_active /\ in.want_connection /\ in.insert)
     /\ ~in.is_active => ~in.want_connection
     /\ ~in.want_connection => ~in.insert
     /\ in.unread_size = 0}

\* The reason C17 gives for a rejection.
RejectionReason(in) ==
  IF ~in.is_active THEN "e_handshake_inactive_download"
  ELSE IF in.is_done /\ in.is_all_set THEN "e_handshake_unwanted_connection"
  ELSE "e_handshake_duplicate"

\* C17: when receive_succeeded is called on an active Handshake and one of
\* the three acceptance conditions fails, no connection is promoted, the
\* socket is closed once, the Handshake is removed from the registry, torn
\* down and freed, the reason is inactive-download, else unwanted-connection
\* if the download is done and the bitfield all set, else duplicate, and
\* the insertion is attempted only if the download is active and the peer
\* wanted.
C17_Rejection ==
  [](\A h \in Succeeding : \A in \in RejectingInputs :
       LET res == receive_succeeded(State, h, in)
           fd  == handshakes[h].fd
       IN  /\ res.r.path = "dropped"
           /\ res.s.connection_list = connection_list
           /\ sockets[fd].closed = 0 /\ res.s.sockets[fd].closed = 1
           /\ ~res.s.sockets[fd].promoted
           /\ SocketsKept([State EXCEPT !.sockets[fd] = res.s.sockets[fd]],
                          res.s, 0)
           /\ res.s.registry = SelectSeq(registry, LAMBDA x : x # h)
           /\ res.s.handshakes[h].freed
           /\ res.s.handshakes[h].events = TornDown
           /\ res.r.reason = RejectionReason(in)
           /\ res.r.inserted <=> in.is_active /\ in.want_connection)

C17_Witness ==
  /\ lastOp.op = "receive_succeeded" /\ lastOp.path = "dropped"
  /\ \E h \in Ended : /\ handshakes[h].events = TornDown
                       /\ sockets[handshakes[h].fd].closed = 1
  /\ Succeeding # {}
----------------------------------------------------------------------------
(* C18 *)

\* The options of a first attempt and of a retry.
AttemptOptions == {{}, {encryption_retrying}}

\* No record, and a record with a dial that succeeds.
RecordInputs == {NoOutgoing, PlainOutgoing}

\* C18: create_outgoing refuses the attempt when connected() gives no record
\* or the record's failure counter is over max_failed: no dial, no socket
\* setup, no disconnected, no Handshake, no change of the open-socket
\* counter or of anything else; with a record whose counter is at most
\* max_failed it dials. The same with and without the retry marker.
C18_RefusedOverMaxFailed ==
  [](\A sa \in Addresses, download \in Downloads :
       \A options \in AttemptOptions, in \in RecordInputs :
         LET res == create_outgoing(State, sa, download, options, in)
         IN  IF ~in.peer \/ peer_list[<<download, sa>>] > max_failed
               THEN /\ res.s = State
                    /\ ~res.r.dialed /\ ~res.r.setup
                    /\ res.r.disconnected = 0 /\ res.r.h = 0
               ELSE res.r.dialed)

C18_Witness ==
  /\ lastOp.op = "add_outgoing" /\ lastOp.path = "failed_counter"
  /\ ~lastOp.dialed /\ ~lastOp.setup
  /\ \E p \in DOMAIN peer_list : peer_list[p] > max_failed
----------------------------------------------------------------------------
(* C19 *)

\* Encryption options without and with the retry marker.
MarkedOptions ==
  EncryptionOptions \cup {o \cup {encryption_retrying} : o \in EncryptionOptions}

\* The connect flags C19 asks for with these encryption options.
FlagsFor(options) ==
  IF encryption_retrying \in options
    THEN {connect_keep_handshakes}
    ELSE {connect_keep_handshakes, connect_filter_recent}

\* This step called create_outgoing.
Queried == lastOp'.connection_options # {}

\* C19: every create_outgoing call queries the peer list with the
\* handshake-tracked flag, and with the recent-attempt flag exactly when the
\* encryption options do not carry the retry marker; so the call add_outgoing
\* makes always carries the recent-attempt flag and the retry receive_failed
\* issues never does.
C19_FilterRecentUnlessRetry ==
  /\ [](\A sa \in Addresses, download \in Downloads, options \in MarkedOptions :
          create_outgoing(State, sa, download, options,
                          PlainOutgoing).r.connection_options = FlagsFor(options))
  /\ [][/\ (lastOp'.op = "add_outgoing" /\ lastOp'.path # "denied") =>
             lastOp'.connection_options =
               {connect_keep_handshakes, connect_filter_recent}
        /\ (lastOp'.op \in {"receive_failed", "receive_timeout"}
              /\ lastOp'.path = "retried") =>
             lastOp'.connection_options = {connect_keep_handshakes}
        /\ Queried <=> lastOp'.path \notin {"denied", "failed", "throw_inactive",
                                             "throw_erase"}
                         /\ lastOp'.op \in {"add_outgoing", "receive_failed",
                                             "receive_timeout"}]_vars

C19_Witness ==
  /\ lastOp.op \in {"receive_failed", "receive_timeout"}
  /\ lastOp.path = "retried"
  /\ lastOp.connection_options = {connect_keep_handshakes}
  /\ lastOp.retry \in {"registered", "dial_failed"}
----------------------------------------------------------------------------
(* C20 *)

\* The exit this step's create_outgoing call took.
CallPath == IF lastOp'.op = "add_outgoing" THEN lastOp'.path ELSE lastOp'.retry

\* connected() gave this step's create_outgoing call a peer record.
RecordObtained == Queried /\ CallPath # "no_peer"

\* The step registered a new Handshake that holds the peer record.
RecordBound ==
  /\ Len(handshakes') = Len(handshakes) + 1
  /\ LET h == Len(handshakes')
     IN  /\ h \in Range(registry')
         /\ handshakes'[h].active
         /\ handshakes'[h].peer_info # NULL

\* The step gave the peer record back through disconnected().
RecordHandedBack == lastOp'.disconnected # NULL

\* C20: a peer record that create_outgoing obtained from connected() is,
\* when create_outgoing returns, bound to a registered Handshake or handed
\* back to the peer list through disconnected(), on every exit path.
C20_RecordBoundOrHandedBack ==
  [][RecordObtained => RecordBound \/ RecordHandedBack]_vars
====
